---- MODULE Spec2Model ----
(***************************************************************************)
(* State-machine model of app_py.py: the Sentinel-2 NDVI pipeline          *)
(* (process, download_images, mosaic_tif_images) driven by the Streamlit   *)
(* form (streamlit_ui).                                                    *)
(*                                                                         *)
(* External collaborators (Earth Engine client, HTTP transport, rasterio)  *)
(* are modelled by the outcomes they can hand back to the code.            *)
(***************************************************************************)
EXTENDS Integers, Sequences, FiniteSets, TLC

\* ---------------------------------------------------------------- bounds
MaxSplits == 3      \* largest split count explored by Spec
MaxRuns == 2        \* number of button clicks (pipeline runs) explored

\* ------------------------------------------------------ program constants
SliderMin == 1      \* st.slider(min_value=1)
SliderMax == 10     \* st.slider(max_value=10)

VARIABLES
    ui,                   \* form state: "idle", "processing", "offered", "crashed"
    payload,              \* data handed to st.download_button (NoPayload when not shown)
    run,                  \* number of pipeline runs started so far
    pc,                   \* statement of process() about to execute
    err,                  \* kind of the exception that ended the run, "none" otherwise
    num_splits,           \* argument of process()
    sub_regions,          \* local of process()
    url_requests,         \* getDownloadURL calls received by the catalog in this run
    download_urls,        \* local of process(), argument of download_images()
    i,                    \* loop index of download_images() (0-based, as enumerate)
    response,             \* local of download_images(): response being handled
    requests,             \* HTTP GETs received by the transport in this call
    folder,               \* files in output_folder ("downloaded_images")
    folder_was_empty,     \* history: folder had no file when download_images was called
    tif_files,            \* local of mosaic_tif_images()
    src_files_to_mosaic,  \* raster datasets currently open for reading
    mosaic_output         \* the file "mosaic_output.tif"

vars == <<ui, payload, run, pc, err, num_splits, sub_regions, url_requests,
          download_urls, i, response, requests, folder, folder_was_empty,
          tif_files, src_files_to_mosaic, mosaic_output>>

\* ------------------------------------------------------------ data values
NoPayload == [kind |-> "none", text |-> "", tiles |-> {}]
Text(s) == [kind |-> "text", text |-> s, tiles |-> {}]
Raster(ts) == [kind |-> "raster", text |-> "", tiles |-> ts]

NoFile == [exists |-> FALSE, content |-> NoPayload]
File(c) == [exists |-> TRUE, content |-> c]

NoUrl == [present |-> FALSE, run |-> 0, region |-> 0]
Url(r, k) == [present |-> TRUE, run |-> r, region |-> k]

NoResponse == [status |-> 0, content |-> NoUrl]
Response(s, u) == [status |-> s, content |-> u]

\* a writer whose extension differs from the scanner's pattern
FileName_tiff(n) == [stem |-> n, ext |-> "tiff"]

\* f"image_{i}.tif"
FileName(n) == [stem |-> n, ext |-> "tif"]

\* glob(os.path.join(folder, "*.tif")): flat scan, extension match
Glob(dir) == {f \in dir : f.name.ext = "tif"}

\* with open(path, "wb") as f: f.write(content)  -- create or truncate
WriteFile(dir, name, content) ==
    {f \in dir : f.name # name} \cup {[name |-> name, data |-> content]}

\* Region Splitter: N cells of a uniform grid over the bounding box; cell k
\* spans [k-1, k] in units of 1/N of the box, so N = 1 is the box itself.
BoundingBox == [lo |-> 0, hi |-> 1, parts |-> 1]
split_bounds(n) == [k \in 1..n |-> [lo |-> k - 1, hi |-> k, parts |-> n]]

\* a comprehension that stops one sub-region short
AllResolved_short == Len(download_urls) + 1 >= Len(sub_regions)

\* the list comprehension of process() has consumed every sub-region
AllResolved == Len(download_urls) = Len(sub_regions)

\* a loop that leaves before its last element
LoopDone_early == i + 1 >= Len(download_urls)

\* the for loop of download_images() is exhausted
LoopDone == i = Len(download_urls)

\* a handler that names HTTPError only
Caught_HTTPErrorOnly(outcome) == outcome = "bad_status"

\* requests.exceptions.RequestException covers ConnectionError and HTTPError
Caught(outcome) == outcome \in {"conn_fail", "bad_status"}

\* a template lookup that tolerates an empty list
HasTemplate_any(files) == TRUE

\* merge() / src_files_to_mosaic[0] need at least one dataset
HasTemplate(files) == files # {}

\* ------------------------------------------------------------------- Init
\* The script starts with no downloaded_images folder; the working directory
\* holds either no mosaic_output.tif or one left by an earlier session.
EarlierMosaic == File(Raster({Url(0, 1)}))

Init ==
    /\ ui = "idle"
    /\ payload = NoPayload
    /\ run = 0
    /\ pc = "idle"
    /\ err = "none"
    /\ num_splits = 0
    /\ sub_regions = <<>>
    /\ url_requests = 0
    /\ download_urls = <<>>
    /\ i = 0
    /\ response = NoResponse
    /\ requests = <<>>
    /\ folder = {}
    /\ folder_was_empty = TRUE
    /\ tif_files = {}
    /\ src_files_to_mosaic = {}
    /\ mosaic_output \in {NoFile, EarlierMosaic}

\* an uncaught exception leaves process() and ends the script run
Raise(e) ==
    /\ pc' = "raised"
    /\ err' = e
    /\ ui' = "crashed"
    /\ payload' = NoPayload

\* ------------------------------------------------------------ streamlit_ui
\* if st.button('Process'): ... result = process(aoi, num_splits, ...)
Submit(n) ==
    /\ ui \in {"idle", "offered", "crashed"}
    /\ run < MaxRuns
    /\ ui' = "processing"
    /\ payload' = NoPayload
    /\ run' = run + 1
    /\ pc' = "initialize_ee"
    /\ err' = "none"
    /\ num_splits' = n
    /\ sub_regions' = <<>>
    /\ url_requests' = 0
    /\ download_urls' = <<>>
    /\ i' = 0
    /\ response' = NoResponse
    /\ requests' = <<>>
    /\ tif_files' = {}
    /\ UNCHANGED <<folder, folder_was_empty, src_files_to_mosaic, mosaic_output>>

\* st.text(result); st.download_button('Download Mosaic', "mosaic_output.tif", ...)
OfferDownload ==
    /\ pc = "return"
    /\ pc' = "returned"
    /\ ui' = "offered"
    /\ payload' = Text("mosaic_output.tif")
    /\ UNCHANGED <<run, err, num_splits, sub_regions, url_requests, download_urls,
                   i, response, requests, folder, folder_was_empty, tif_files,
                   src_files_to_mosaic, mosaic_output>>

\* clicking the download button reruns the script with st.button() False
ClickDownload ==
    /\ ui = "offered"
    /\ ui' = "idle"
    /\ payload' = NoPayload
    /\ pc' = "idle"
    /\ UNCHANGED <<run, err, num_splits, sub_regions, url_requests, download_urls,
                   i, response, requests, folder, folder_was_empty, tif_files,
                   src_files_to_mosaic, mosaic_output>>

\* ----------------------------------------------------------------- process
\* initialize_ee() .. clip_image_to_aoi(): authentication may be refused
InitializeEE ==
    /\ pc = "initialize_ee"
    /\ \/ /\ pc' = "split_bounds"
          /\ UNCHANGED <<ui, payload, err>>
       \/ Raise("auth")
    /\ UNCHANGED <<run, num_splits, sub_regions, url_requests, download_urls,
                   i, response, requests, folder, folder_was_empty, tif_files,
                   src_files_to_mosaic, mosaic_output>>

\* sub_regions = split_bounds(aoi.geometry(), num_splits)
SplitBounds ==
    /\ pc = "split_bounds"
    /\ sub_regions' = split_bounds(num_splits)
    /\ pc' = "get_download_url"
    /\ UNCHANGED <<ui, payload, run, err, num_splits, url_requests, download_urls,
                   i, response, requests, folder, folder_was_empty, tif_files,
                   src_files_to_mosaic, mosaic_output>>

\* download_urls = [get_download_url(ndvi_clipped, region) for region in sub_regions]
\* The catalog answers with a URL, with no value, or by raising.
GetDownloadUrl ==
    /\ pc = "get_download_url"
    /\ ~AllResolved
    /\ url_requests' = url_requests + 1
    /\ \/ /\ download_urls' = Append(download_urls, Url(run, Len(download_urls) + 1))
          /\ UNCHANGED <<ui, payload, pc, err>>
       \/ /\ download_urls' = Append(download_urls, NoUrl)
          /\ UNCHANGED <<ui, payload, pc, err>>
       \/ /\ Raise("export")
          /\ UNCHANGED download_urls
    /\ UNCHANGED <<run, num_splits, sub_regions, i, response, requests, folder,
                   folder_was_empty, tif_files, src_files_to_mosaic, mosaic_output>>

\* ---------------------------------------------------------- download_images
\* download_images(download_urls, output_folder): os.makedirs(..., exist_ok=True)
DownloadImages ==
    /\ pc = "get_download_url"
    /\ AllResolved
    /\ pc' = "download_images"
    /\ i' = 0
    /\ folder_was_empty' = (folder = {})
    /\ UNCHANGED <<ui, payload, run, err, num_splits, sub_regions, url_requests,
                   download_urls, response, requests, folder, tif_files,
                   src_files_to_mosaic, mosaic_output>>

\* a missing URL slot that leaves the loop (break instead of falling through)
DownloadSkip_break ==
    /\ pc = "download_images"
    /\ ~LoopDone
    /\ response = NoResponse
    /\ ~download_urls[i + 1].present
    /\ i' = Len(download_urls)
    /\ UNCHANGED <<ui, payload, run, pc, err, num_splits, sub_regions, url_requests,
                   download_urls, response, requests, folder, folder_was_empty,
                   tif_files, src_files_to_mosaic, mosaic_output>>

\* if url:  -- a missing URL slot is passed over
DownloadSkip ==
    /\ pc = "download_images"
    /\ ~LoopDone
    /\ response = NoResponse
    /\ ~download_urls[i + 1].present
    /\ i' = i + 1
    /\ UNCHANGED <<ui, payload, run, pc, err, num_splits, sub_regions, url_requests,
                   download_urls, response, requests, folder, folder_was_empty,
                   tif_files, src_files_to_mosaic, mosaic_output>>

\* response = requests.get(url)
DownloadGet ==
    /\ pc = "download_images"
    /\ ~LoopDone
    /\ response = NoResponse
    /\ download_urls[i + 1].present
    /\ \E outcome \in {"conn_fail", "bad_status", "ok"} :
          /\ requests' = Append(requests, [idx |-> i, outcome |-> outcome])
          /\ IF outcome = "conn_fail"
             THEN IF Caught(outcome)
                  THEN /\ i' = i + 1
                       /\ UNCHANGED <<response, ui, payload, pc, err>>
                  ELSE /\ Raise("transport")
                       /\ UNCHANGED <<response, i>>
             ELSE /\ response' = Response(IF outcome = "ok" THEN 200 ELSE 404,
                                          download_urls[i + 1])
                  /\ UNCHANGED <<i, ui, payload, pc, err>>
    /\ UNCHANGED <<run, num_splits, sub_regions, url_requests, download_urls,
                   folder, folder_was_empty, tif_files, src_files_to_mosaic,
                   mosaic_output>>

\* response.raise_for_status(); with open(image_{i}.tif, "wb") as f: f.write(...)
DownloadStore ==
    /\ pc = "download_images"
    /\ response # NoResponse
    /\ IF response.status = 200
       THEN /\ folder' = WriteFile(folder, FileName(i), response.content)
            /\ i' = i + 1
            /\ UNCHANGED <<ui, payload, pc, err>>
       ELSE /\ UNCHANGED folder
            /\ IF Caught("bad_status")
               THEN /\ i' = i + 1
                    /\ UNCHANGED <<ui, payload, pc, err>>
               ELSE /\ Raise("transport")
                    /\ UNCHANGED i
    /\ response' = NoResponse
    /\ UNCHANGED <<run, num_splits, sub_regions, url_requests, download_urls,
                   requests, folder_was_empty, tif_files, src_files_to_mosaic,
                   mosaic_output>>

\* -------------------------------------------------------- mosaic_tif_images
\* tif_files = [glob(os.path.join(folder, "*.tif")) for folder in folders], flattened
MosaicScan ==
    /\ pc = "download_images"
    /\ LoopDone
    /\ response = NoResponse
    /\ tif_files' = Glob(folder)
    /\ pc' = "rasterio_open"
    /\ UNCHANGED <<ui, payload, run, err, num_splits, sub_regions, url_requests,
                   download_urls, i, response, requests, folder, folder_was_empty,
                   src_files_to_mosaic, mosaic_output>>

\* src_files_to_mosaic = [rasterio.open(tif) for tif in tif_files]
MosaicOpen ==
    /\ pc = "rasterio_open"
    /\ src_files_to_mosaic' = src_files_to_mosaic \cup {f.name : f \in tif_files}
    /\ pc' = "merge"
    /\ UNCHANGED <<ui, payload, run, err, num_splits, sub_regions, url_requests,
                   download_urls, i, response, requests, folder, folder_was_empty,
                   tif_files, mosaic_output>>

\* mosaic, out_trans = merge(src_files_to_mosaic)
\* On an empty list the library either raises or hands back to line 60.
MosaicMerge ==
    /\ pc = "merge"
    /\ \/ /\ pc' = "out_meta"
          /\ UNCHANGED <<ui, payload, err>>
       \/ /\ ~HasTemplate(tif_files)
          /\ Raise("assembly")
    /\ UNCHANGED <<run, num_splits, sub_regions, url_requests, download_urls,
                   i, response, requests, folder, folder_was_empty, tif_files,
                   src_files_to_mosaic, mosaic_output>>

\* out_meta = src_files_to_mosaic[0].meta.copy()  -- IndexError on an empty list
MosaicMeta ==
    /\ pc = "out_meta"
    /\ IF HasTemplate(tif_files)
       THEN /\ pc' = "write"
            /\ UNCHANGED <<ui, payload, err>>
       ELSE Raise("assembly")
    /\ UNCHANGED <<run, num_splits, sub_regions, url_requests, download_urls,
                   i, response, requests, folder, folder_was_empty, tif_files,
                   src_files_to_mosaic, mosaic_output>>

\* with rasterio.open(output_file, "w", **out_meta) as dest: dest.write(mosaic)
\* then process() reaches: return "Mosaic created successfully!"
MosaicWrite ==
    /\ pc = "write"
    /\ mosaic_output' = File(Raster({f.data : f \in tif_files}))
    /\ pc' = "return"
    /\ UNCHANGED <<ui, payload, run, err, num_splits, sub_regions, url_requests,
                   download_urls, i, response, requests, folder, folder_was_empty,
                   tif_files, src_files_to_mosaic>>

\* The datasets of line 57 are never closed by the code; the interpreter may
\* finalize them at some point after mosaic_tif_images() has ended.
Finalize ==
    /\ pc \in {"return", "returned", "raised", "idle"}
    /\ src_files_to_mosaic # {}
    /\ src_files_to_mosaic' = {}
    /\ UNCHANGED <<ui, payload, run, pc, err, num_splits, sub_regions, url_requests,
                   download_urls, i, response, requests, folder, folder_was_empty,
                   tif_files, mosaic_output>>

\* ------------------------------------------------------------------- specs
Splits == SliderMin..(IF MaxSplits < SliderMax THEN MaxSplits ELSE SliderMax)

Next ==
    \/ \E n \in Splits : Submit(n)
    \/ InitializeEE
    \/ SplitBounds
    \/ GetDownloadUrl
    \/ DownloadImages
    \/ DownloadSkip
    \/ DownloadGet
    \/ DownloadStore
    \/ MosaicScan
    \/ MosaicOpen
    \/ MosaicMerge
    \/ MosaicMeta
    \/ MosaicWrite
    \/ OfferDownload
    \/ ClickDownload
    \/ Finalize

Spec == Init /\ [][Next]_vars

\* The form with the whole slider range, followed up to the call of
\* download_images(): the part of process() that splits and resolves.
NextSlider ==
    \/ \E n \in SliderMin..SliderMax : Submit(n)
    \/ InitializeEE
    \/ SplitBounds
    \/ GetDownloadUrl
    \/ DownloadImages

SpecSlider == Init /\ [][NextSlider]_vars

\* ------------------------------------------------------------- vocabulary
MosaicStages == {"rasterio_open", "merge", "out_meta", "write", "return", "returned"}

\* download_images() of the current run has returned
Downloaded == pc \in MosaicStages \/ (pc = "raised" /\ err = "assembly")

\* split_bounds() of the current run has returned
SplitDone ==
    \/ pc \in {"get_download_url", "download_images"} \cup MosaicStages
    \/ (pc = "raised" /\ err \in {"export", "assembly"})

\* 0-based indices of the URL slots that hold a value, in sequence order
PresentIndices(urls) ==
    SelectSeq([k \in 1..Len(urls) |-> k - 1], LAMBDA j : urls[j + 1].present)

RequestedIdx == [k \in 1..Len(requests) |-> requests[k].idx]

SucceededIdx == {requests[k].idx : k \in {j \in 1..Len(requests) : requests[j].outcome = "ok"}}

\* slots the loop has gone past or is handling
Reached == IF response # NoResponse THEN i + 1 ELSE i

FileNames(dir) == {f.name : f \in dir}

\* ----------------------------------------------------------------- claims

\* C1: whatever the transport outcomes, a failed URL is skipped: the requests
\* made so far are exactly the present URLs reached so far, each once and in
\* order, the whole list once download_images has returned, and no transport
\* failure ever leaves download_images as an exception.
C1_FailureSkipped ==
    /\ err # "transport"
    /\ pc = "download_images" =>
          RequestedIdx = PresentIndices(SubSeq(download_urls, 1, Reached))
    /\ Downloaded => RequestedIdx = PresentIndices(download_urls)

C1_Witness ==
    /\ Downloaded
    /\ \E a, b, c \in 1..Len(requests) :
          /\ a < b /\ b < c
          /\ requests[a].outcome = "conn_fail"
          /\ requests[b].outcome = "bad_status"
          /\ requests[c].outcome = "ok"

C3_EmptyScanRaises ==
    /\ [](pc \in {"write", "return", "returned"} => tif_files # {})
    /\ []((pc = "raised" /\ err = "assembly") => tif_files = {})
    /\ [][(pc \in {"rasterio_open", "merge", "out_meta"} /\ tif_files = {}) =>
             /\ pc' \in {"merge", "out_meta", "raised"}
             /\ mosaic_output' = mosaic_output]_vars

C3_Witness ==
    /\ pc = "raised"
    /\ err = "assembly"
    /\ tif_files = {}
    /\ requests # <<>>
    /\ mosaic_output = EarlierMosaic

\* C4: when the Mosaicker has scanned the folder, it has found at most as many
\* tiles as the current run has sub-regions.
C4_TilesAtMostSubRegions ==
    Downloaded => Cardinality(tif_files) <= Len(sub_regions)

\* C5: after download_images on a folder that was empty, the files are exactly
\* image_<i>.tif for the slots whose request succeeded, a missing slot is
\* neither requested nor written, and the scan finds every file.
C5_ExactTiles ==
    (Downloaded /\ folder_was_empty) =>
        /\ FileNames(folder) = {FileName(j) : j \in SucceededIdx}
        /\ Cardinality(folder) = Cardinality(SucceededIdx)
        /\ \A j \in 0..(Len(download_urls) - 1) :
              ~download_urls[j + 1].present =>
                  /\ \A k \in 1..Len(requests) : requests[k].idx # j
                  /\ FileName(j) \notin FileNames(folder)
        /\ tif_files = folder

C5_Witness ==
    /\ Downloaded
    /\ folder_was_empty
    /\ Len(download_urls) = 3
    /\ ~download_urls[2].present
    /\ FileNames(tif_files) = {FileName(0), FileName(2)}

\* C6 as stated: a sub-region the catalog declines never ends the run; the
\* run goes on to the remaining sub-regions.
C6_DeclineNeverAborts ==
    ~(pc = "raised" /\ err = "export")

\* C6 amended: a decline that yields no value leaves a slot that is neither
\* requested nor written in this run while every other slot is still
\* requested; a decline that raises ends the run before any download or scan.
C6_DeclineAmended ==
    /\ (pc = "raised" /\ err = "export") =>
          /\ requests = <<>>
          /\ i = 0
          /\ tif_files = {}
          /\ \A f \in folder : f.data.run # run
          /\ Len(download_urls) < Len(sub_regions)
    /\ (pc = "download_images" \/ Downloaded) =>
          /\ Len(download_urls) = Len(sub_regions)
          /\ \A j \in 0..(Len(download_urls) - 1) :
                ~download_urls[j + 1].present =>
                    /\ \A k \in 1..Len(requests) : requests[k].idx # j
                    /\ \A f \in folder : f.name = FileName(j) => f.data.run # run
    /\ Downloaded =>
          \A j \in 0..(Len(download_urls) - 1) :
              download_urls[j + 1].present =>
                  Cardinality({k \in 1..Len(requests) : requests[k].idx = j}) = 1

C6_Witness ==
    /\ Downloaded
    /\ \E j, k \in 0..(Len(download_urls) - 1) :
          /\ j < k
          /\ ~download_urls[j + 1].present
          /\ download_urls[k + 1].present
          /\ [name |-> FileName(k), data |-> Url(run, k + 1)] \in folder

\* C7: the download action is shown only after process returned without
\* raising, and its payload is the content of the mosaic file of that run.
C7_PayloadIsMosaic ==
    ui = "offered" =>
        /\ pc = "returned"
        /\ err = "none"
        /\ mosaic_output.exists
        /\ payload = mosaic_output.content

\* C8: once download_images or mosaic_tif_images has ended, by return or by
\* exception, no file it opened is still open.
C8_NoHandleLeft ==
    pc \in {"return", "returned", "raised", "idle"} => src_files_to_mosaic = {}

\* C9: the stages of a run never overlap: a download request is made only
\* after every URL is resolved and while no response is being handled, the
\* indices requested increase, and the scan comes after the last slot.
C9_StagesOrdered ==
    /\ [](requests # <<>> =>
            /\ Len(download_urls) = Len(sub_regions)
            /\ url_requests = Len(sub_regions))
    /\ [](\A a, b \in 1..Len(requests) : a < b => requests[a].idx < requests[b].idx)
    /\ [](response # NoResponse =>
            /\ pc = "download_images"
            /\ requests[Len(requests)].idx = i)
    /\ [](Downloaded => (i = Len(download_urls) /\ response = NoResponse))
    /\ [][Len(requests') > Len(requests) =>
             /\ response = NoResponse
             /\ pc = "download_images"
             /\ url_requests' = url_requests
             /\ tif_files' = tif_files]_vars
    /\ [][(tif_files' # tif_files /\ tif_files' # {}) =>
             /\ i = Len(download_urls)
             /\ response = NoResponse
             /\ requests' = requests]_vars

C9_Witness ==
    /\ pc = "rasterio_open"
    /\ Len(requests) >= 2
    /\ Len(download_urls) = 3
    /\ tif_files # {}

\* C10: whenever process returns its success message, the mosaic it wrote
\* holds only tiles downloaded during that run, of which there is at least one.
C10_MosaicFromThisRun ==
    pc \in {"return", "returned"} =>
        /\ \A t \in mosaic_output.content.tiles : t.run = run
        /\ SucceededIdx # {}

TypeOK ==
    /\ ui \in {"idle", "processing", "offered", "crashed"}
    /\ run \in 0..MaxRuns
    /\ i \in 0..SliderMax
    /\ err \in {"none", "auth", "export", "assembly", "transport"}

====
